---- MODULE Spec2Model ----
(***************************************************************************)
(* Model of esphome::nabu::AudioReader                                     *)
(* (esphome/components/nabu/audio_reader.cpp).                             *)
(*                                                                         *)
(* The reader is driven by one caller task (start / read / destructor).    *)
(* A separate consumer task drains the output ring buffer; it may run      *)
(* between any two accesses the reader makes to the ring buffer, so        *)
(* http_read_ is modelled in three steps (measure, receive, write).        *)
(***************************************************************************)
EXTENDS Integers, Sequences, FiniteSets, TLC

\* ---- bounds of the model ------------------------------------------------
MaxLen == 2        \* longest memory source / session body
MaxSize == 2       \* largest transfer_buffer_size_
RingCap == 2       \* capacity of the output ring buffer
MaxCapacity == 4   \* largest staging and ring capacity of StreamSpec
MaxStarts == 2     \* number of start() calls in one run

\* ---- values -------------------------------------------------------------
nullptr == 0

MediaFileTypes == {"NONE", "WAV", "MP3", "FLAC"}

\* URLs are sequences of characters
Urls == { <<".", "w", "a", "v">>,
          <<"a", ".", "m", "p", "3">>,
          <<"a", ".", "f", "l", "a", "c">>,
          <<"a", ".", "o", "g", "g">>,
          <<"w", "a", "v">> }

Uris == { <<>>, <<"h", ":", "a">> }

Min(a, b) == IF a < b THEN a ELSE b

\* str_endswith(str, end): str ends with the characters of end
str_endswith(str, end) ==
    /\ Len(str) >= Len(end)
    /\ SubSeq(str, Len(str) - Len(end) + 1, Len(str)) = end

\* the suffix dispatch of start(uri)
UrlFileType(url) ==
    IF str_endswith(url, <<".", "w", "a", "v">>) THEN "WAV"
    ELSE IF str_endswith(url, <<".", "m", "p", "3">>) THEN "MP3"
    ELSE IF str_endswith(url, <<".", "f", "l", "a", "c">>) THEN "FLAC"
    ELSE "NONE"

\* the bytes of source id at offsets off+1 .. off+n (a byte is named by its
\* source and its position, so order, loss and duplication are observable)
Bytes(id, off, n) == [i \in 1..n |-> <<id, off + i>>]

VARIABLES
    transfer_buffer_,          \* TRUE iff the staging buffer is allocated
    transfer_buffer_size_,     \* staging capacity, fixed at construction
    client_,                   \* nullptr or the id of the session handle
    current_media_file_,       \* nullptr or the id of the memory descriptor
    transfer_buffer_current_,  \* read cursor: [region, id, off]
    transfer_buffer_length_,   \* remaining length of the file path
    ring_used,                 \* bytes held by the output ring buffer
    ring_size,                 \* capacity of the output ring buffer
    sessions,                  \* id -> [st, releases, total, pos]
    pc,                        \* position of the caller inside http_read_
    space_available,           \* locals of http_read_
    bytes_to_read,
    received_len,
    destroyed,                 \* the destructor has run
    nstarts,                   \* number of start() calls made
    ret,                       \* the last call that returned: [op, status, step,
                               \* file_type, headers, arg, complete], file_type
                               \* the output of a start, headers what
                               \* fetch_headers answered in it, arg whether its
                               \* uri was empty, complete what the session
                               \* answered to is_complete_data_received on
                               \* entry to a network step
    prevRead,                  \* [status, step] of the last read() on entry to the
                               \* last call ("NONE" when a start came after it)
    after_terminal,            \* the last start() was called when the last read()
                               \* of a source had returned FINISHED or FAILED
    prev_client,               \* client_ on entry to the last start()
    src,                       \* source of the last start(), if it succeeded
    fwd,                       \* bytes written to the ring since the last start()
    session_read_len,          \* length asked of esp_http_client_read in this step
    delayed,                   \* vTaskDelay was called in the last read()
    allocs,                    \* staging buffers the allocator has handed out
    frees                      \* staging buffers given back to the allocator

vars == << transfer_buffer_, transfer_buffer_size_, client_,
           current_media_file_, transfer_buffer_current_,
           transfer_buffer_length_, ring_used, sessions, pc, space_available,
           bytes_to_read, received_len, destroyed, nstarts, ret,
           prevRead, after_terminal, prev_client, src, fwd, session_read_len,
           delayed, ring_size, allocs, frees >>

NoReq == 0 - 1     \* esp_http_client_read was not called in this step

NoSession == [st |-> "unused", releases |-> 0, total |-> 0, pos |-> 0]
NullCursor == [region |-> "null", id |-> 0, off |-> 0]
StagingCursor == [region |-> "staging", id |-> 0, off |-> 0]
NoSource == [kind |-> "none", id |-> 0, len |-> 0]

Live(s) == sessions[s].st \in {"init", "open"}

\* result of the last read() since the last start(), "NONE" if there is none
LastRead == IF ret.op = "read" THEN ret.status ELSE "NONE"

NoRead == [status |-> "NONE", step |-> "none"]
LastReadRec ==
    IF ret.op = "read" THEN [status |-> ret.status, step |-> ret.step] ELSE NoRead

\* AudioReader::AudioReader
Init ==
    /\ transfer_buffer_ = FALSE
    /\ transfer_buffer_size_ \in 1..MaxSize
    /\ client_ = nullptr
    /\ current_media_file_ = nullptr
    /\ transfer_buffer_current_ = NullCursor
    /\ transfer_buffer_length_ = 0
    /\ ring_size = RingCap
    /\ ring_used \in 0..ring_size
    /\ allocs = 0
    /\ frees = 0
    /\ sessions = [s \in 1..MaxStarts |-> NoSession]
    /\ pc = "idle"
    /\ space_available = 0
    /\ bytes_to_read = 0
    /\ received_len = 0
    /\ destroyed = FALSE
    /\ nstarts = 0
    /\ ret = [op |-> "init", status |-> "ESP_OK", step |-> "init", file_type |-> "NONE",
              headers |-> "none", arg |-> "none", complete |-> "none"]
    /\ prevRead = NoRead
    /\ after_terminal = FALSE
    /\ prev_client = nullptr
    /\ src = NoSource
    /\ fwd = <<>>
    /\ session_read_len = NoReq
    /\ delayed = FALSE

\* ---- helpers ------------------------------------------------------------

\* mutant of cleanup_connection_: the handle is dropped, the session never
\* closed nor released
cleanup_connection_leaks(c, ss) == ss

\* AudioReader::cleanup_connection_: close and release the session c, if any;
\* gives the session table afterwards (client_ becomes nullptr)
cleanup_connection_(c, ss) ==
    IF c # nullptr
    THEN [ss EXCEPT ![c] = [st |-> "released", releases |-> @.releases + 1,
                            total |-> 0, pos |-> 0]]
    ELSE ss

\* mutant of allocations: a new block is taken although one is held
allocations_always(buf, got) == IF got THEN 1 ELSE 0

\* the blocks allocate_buffers_ takes from the allocator: it asks only while
\* transfer_buffer_ is null, got tells whether the allocator has memory
allocations(buf, got) == IF buf = FALSE /\ got THEN 1 ELSE 0

\* AudioReader::allocate_buffers_: buf is transfer_buffer_, got the result of
\* allocator.allocate; gives transfer_buffer_ afterwards (FALSE: ESP_ERR_NO_MEM)
allocate_buffers_(buf, got) == IF buf = FALSE THEN got ELSE buf

\* what every start() does on entry, whatever its outcome
StartEntry ==
    /\ pc = "idle"
    /\ ~destroyed
    /\ nstarts < MaxStarts
    /\ nstarts' = nstarts + 1
    /\ prev_client' = client_
    /\ prevRead' = LastReadRec
    /\ after_terminal' = /\ LastRead \in {"FINISHED", "FAILED"}
                         /\ ret.step \in {"file", "http"}
    /\ fwd' = <<>>
    /\ session_read_len' = NoReq
    /\ delayed' = FALSE
    /\ space_available' = 0
    /\ bytes_to_read' = 0
    /\ received_len' = 0
    /\ UNCHANGED << transfer_buffer_size_, ring_used, pc, destroyed, ring_size,
                    frees >>

Returned(op, status, step, type) ==
    ret' = [op |-> op, status |-> status, step |-> step, file_type |-> type,
            headers |-> "none", arg |-> "none", complete |-> "none"]

\* the return of start(uri): headers is "none" when esp_http_client_fetch_headers
\* was not called, "failed" when it gave a negative length, else "ok"
ReturnedUri(status, step, type, headers, arg) ==
    ret' = [op |-> "start_uri", status |-> status, step |-> step,
            file_type |-> type, headers |-> headers, arg |-> arg,
            complete |-> "none"]

\* the return of a network step of read(): complete is what
\* esp_http_client_is_complete_data_received answered on entry to the step
ReturnedHttp(status, complete) ==
    ret' = [op |-> "read", status |-> status, step |-> "http",
            file_type |-> "NONE", headers |-> "none", arg |-> "none",
            complete |-> complete]

\* ---- start(MediaFile *, MediaFileType &) --------------------------------

\* allocate_buffers_ fails
StartFileNoMem ==
    /\ StartEntry
    /\ allocate_buffers_(transfer_buffer_, FALSE) = FALSE
    /\ transfer_buffer_' = FALSE
    /\ allocs' = allocs + allocations(transfer_buffer_, FALSE)
    /\ src' = NoSource
    /\ Returned("start_file", "ESP_ERR_NO_MEM", "alloc", "NONE")
    /\ UNCHANGED << client_, current_media_file_, transfer_buffer_current_,
                    transfer_buffer_length_, sessions >>

\* mutant of start_file_cursor: the cursor is not moved to the new data
start_file_cursor_kept(cur, id) == cur

\* the read cursor start(media_file) sets: the first byte of media_file->data
start_file_cursor(cur, id) == [region |-> "file", id |-> id, off |-> 0]

\* the descriptor has length len and declared type type
StartFileOk ==
    /\ StartEntry
    /\ \E len \in 0..MaxLen, type \in MediaFileTypes :
        /\ allocate_buffers_(transfer_buffer_, TRUE) = TRUE
        /\ transfer_buffer_' = TRUE
        /\ allocs' = allocs + allocations(transfer_buffer_, TRUE)
        /\ current_media_file_' = nstarts'
        /\ transfer_buffer_current_' =
              start_file_cursor(transfer_buffer_current_, nstarts')
        /\ transfer_buffer_length_' = len
        /\ src' = [kind |-> "file", id |-> nstarts', len |-> len]
        /\ Returned("start_file", "ESP_OK", "ok", type)
    /\ UNCHANGED << client_, sessions >>

\* ---- start(const std::string &, MediaFileType &) -------------------------

\* mutant of start_uri_step: the empty uri is not rejected
start_uri_step_no_empty_check(got, uri, init_ok, open_ok, url_ok, url, timeout_ok) ==
    IF ~got THEN "alloc"
    ELSE IF ~init_ok THEN "init"
    ELSE IF ~open_ok THEN "open"
    ELSE IF ~url_ok THEN "url"
    ELSE IF UrlFileType(url) = "NONE" THEN "suffix"
    ELSE IF ~timeout_ok THEN "timeout"
    ELSE "ok"

\* the place where start(uri) returns: got is the result of the allocation,
\* the other arguments are what the HTTP client answers
start_uri_step(got, uri, init_ok, open_ok, url_ok, url, timeout_ok) ==
    IF ~got THEN "alloc"
    ELSE IF uri = <<>> THEN "empty"
    ELSE IF ~init_ok THEN "init"
    ELSE IF ~open_ok THEN "open"
    ELSE IF ~url_ok THEN "url"
    ELSE IF UrlFileType(url) = "NONE" THEN "suffix"
    ELSE IF ~timeout_ok THEN "timeout"
    ELSE "ok"

\* the status start(uri) returns from that place
start_uri_status(step) ==
    CASE step = "alloc" -> "ESP_ERR_NO_MEM"
      [] step = "empty" -> "ESP_ERR_INVALID_ARG"
      [] step = "init" -> "ESP_FAIL"
      [] step = "open" -> "ESP_ERR_HTTP_CONNECT"
      [] step = "url" -> "ESP_FAIL"
      [] step = "suffix" -> "ESP_ERR_NOT_SUPPORTED"
      [] step = "timeout" -> "ESP_ERR_INVALID_ARG"
      [] OTHER -> "ESP_OK"

\* mutant of start_uri_session: the unsupported-suffix return forgets the cleanup
start_uri_session_suffix_leak(step, id, total, ss) ==
    IF step \in {"empty", "init"}
    THEN [client |-> nullptr, sessions |-> ss]
    ELSE LET made == [ss EXCEPT ![id] =
                        [st |-> IF step = "open" THEN "init" ELSE "open",
                         releases |-> 0, total |-> total, pos |-> 0]]
         IN  IF step \in {"ok", "suffix"}
             THEN [client |-> id, sessions |-> made]
             ELSE [client |-> nullptr, sessions |-> cleanup_connection_(id, made)]

\* start(uri) from esp_http_client_init on: ss is the session table after the
\* cleanup on entry, id the handle esp_http_client_init gives, total the length
\* of the body the server will send; gives client_ and the session table
start_uri_session(step, id, total, ss) ==
    IF step \in {"empty", "init"}
    THEN [client |-> nullptr, sessions |-> ss]
    ELSE LET made == [ss EXCEPT ![id] =
                        [st |-> IF step = "open" THEN "init" ELSE "open",
                         releases |-> 0, total |-> total, pos |-> 0]]
         IN  IF step = "ok"
             THEN [client |-> id, sessions |-> made]
             ELSE [client |-> nullptr, sessions |-> cleanup_connection_(id, made)]

\* the answers of the allocator and of the HTTP client to one start(uri); an
\* answer the code does not get to ask for is left at its default
Answer(got, uri, init_ok, open_ok, headers_ok, url_ok, url, timeout_ok, total) ==
    [got |-> got, uri |-> uri, init_ok |-> init_ok, open_ok |-> open_ok,
     headers_ok |-> headers_ok, url_ok |-> url_ok, url |-> url,
     timeout_ok |-> timeout_ok, total |-> total]

DefaultUri == <<"h", ":", "a">>
DefaultUrl == <<".", "w", "a", "v">>
UnknownUrl == <<"a", ".", "o", "g", "g">>

StartUriAnswers ==
    { Answer(got, uri, TRUE, TRUE, TRUE, TRUE, DefaultUrl, TRUE, 0) :
             got \in BOOLEAN, uri \in Uris }
    \cup { Answer(TRUE, DefaultUri, FALSE, TRUE, TRUE, TRUE, DefaultUrl, TRUE, 0),
           Answer(TRUE, DefaultUri, TRUE, FALSE, TRUE, TRUE, DefaultUrl, TRUE, 0) }
    \cup { Answer(TRUE, DefaultUri, TRUE, TRUE, h, FALSE, DefaultUrl, TRUE, 0) :
             h \in BOOLEAN }
    \cup { Answer(TRUE, DefaultUri, TRUE, TRUE, TRUE, TRUE, url, TRUE, 0) :
             url \in { u \in Urls : UrlFileType(u) = "NONE" } }
    \cup { Answer(TRUE, DefaultUri, TRUE, TRUE, TRUE, TRUE, url, FALSE, 0) :
             url \in { u \in Urls : UrlFileType(u) # "NONE" } }
    \cup { Answer(TRUE, DefaultUri, TRUE, TRUE, TRUE, TRUE, url, TRUE, total) :
             url \in { u \in Urls : UrlFileType(u) # "NONE" },
             total \in 0..MaxLen }
    \cup { Answer(TRUE, DefaultUri, TRUE, TRUE, FALSE, TRUE, UnknownUrl, TRUE, 0),
           Answer(TRUE, DefaultUri, TRUE, TRUE, FALSE, TRUE, DefaultUrl, FALSE, 0) }
    \cup { Answer(TRUE, DefaultUri, TRUE, TRUE, FALSE, TRUE, DefaultUrl, TRUE, total) :
             total \in 0..MaxLen }

\* mutant of start_uri_length: the length is reset before the checks
start_uri_length_reset_early(step, len) == IF step = "alloc" THEN len ELSE 0

\* the read cursor and the remaining length after a start(uri) that returns at
\* step: they are set on the last two lines, which only the ESP_OK return passes
start_uri_cursor(step, cur) == IF step = "ok" THEN StagingCursor ELSE cur

start_uri_length(step, len) == IF step = "ok" THEN 0 ELSE len

\* the file_type output of a start(uri) that returns at step: NONE on entry, the
\* type of the suffix from the dispatch on, which the failure return after
\* esp_http_client_set_timeout_ms does not take back
start_uri_file_type(step, url) ==
    IF step \in {"timeout", "ok"} THEN UrlFileType(url) ELSE "NONE"

\* what esp_http_client_fetch_headers answered in a start(uri) that returns at
\* step: it is called once esp_http_client_open has succeeded
start_uri_headers(step, headers_ok) ==
    IF step \in {"alloc", "empty", "init", "open"} THEN "none"
    ELSE IF headers_ok THEN "ok" ELSE "failed"

StartUri ==
    /\ StartEntry
    /\ \E a \in StartUriAnswers :
        LET buf == allocate_buffers_(transfer_buffer_, a.got)
            step == start_uri_step(buf, a.uri, a.init_ok, a.open_ok, a.url_ok,
                                   a.url, a.timeout_ok)
            after == start_uri_session(step, nstarts', a.total,
                                       cleanup_connection_(client_, sessions))
        IN  /\ transfer_buffer_' = buf
            /\ allocs' = allocs + allocations(transfer_buffer_, a.got)
            /\ IF step = "alloc"
               THEN UNCHANGED << client_, sessions >>
               ELSE /\ client_' = after.client
                    /\ sessions' = after.sessions
            /\ transfer_buffer_current_' =
                  start_uri_cursor(step, transfer_buffer_current_)
            /\ transfer_buffer_length_' =
                  start_uri_length(step, transfer_buffer_length_)
            /\ src' = IF step = "ok"
                      THEN [kind |-> "http", id |-> nstarts', len |-> a.total]
                      ELSE NoSource
            /\ ReturnedUri(start_uri_status(step), step,
                           start_uri_file_type(step, a.url),
                           start_uri_headers(step, a.headers_ok),
                           IF a.uri = <<>> THEN "empty" ELSE "nonempty")
    /\ UNCHANGED current_media_file_

\* ---- read() ---------------------------------------------------------------

\* RingBuffer::free
RingFree == ring_size - ring_used

\* RingBuffer::write_without_replacement: the bytes that fit are written
RingWritten(len) == Min(len, RingFree)

\* the first n bytes of the staging buffer: esp_http_client_read has put the
\* received_len bytes it took from the session there
StagingBytes(n) ==
    IF client_ # nullptr /\ received_len > 0
    THEN Bytes(client_, sessions[client_].pos - received_len, Min(n, received_len))
    ELSE <<>>

\* the n bytes at the read cursor
CursorBytes(cur, n) ==
    IF cur.region = "file" THEN Bytes(cur.id, cur.off, n)
    ELSE IF cur.region = "staging" THEN StagingBytes(n)
    ELSE <<>>

\* what every read() does on entry
ReadEntry ==
    /\ pc = "idle"
    /\ ~destroyed
    /\ prevRead' = LastReadRec
    /\ session_read_len' = NoReq
    /\ delayed' = FALSE
    /\ UNCHANGED << transfer_buffer_, transfer_buffer_size_, current_media_file_,
                    destroyed, nstarts, after_terminal, prev_client, src,
                    ring_size, allocs, frees >>

\* read() with neither a session nor a media file
ReadNoSource ==
    /\ ReadEntry
    /\ client_ = nullptr
    /\ current_media_file_ = nullptr
    /\ Returned("read", "FAILED", "none", "NONE")
    /\ space_available' = 0 /\ bytes_to_read' = 0 /\ received_len' = 0
    /\ UNCHANGED << client_, transfer_buffer_current_,
                    transfer_buffer_length_, ring_used, sessions, pc, fwd >>

\* AudioReader::file_read_
file_read_ ==
    /\ ReadEntry
    /\ client_ = nullptr
    /\ current_media_file_ # nullptr
    /\ IF transfer_buffer_length_ > 0
       THEN LET bytes_written == RingWritten(transfer_buffer_length_)
            IN  /\ ring_used' = ring_used + bytes_written
                /\ fwd' = fwd \o CursorBytes(transfer_buffer_current_, bytes_written)
                /\ transfer_buffer_length_' = transfer_buffer_length_ - bytes_written
                /\ transfer_buffer_current_' =
                      [transfer_buffer_current_ EXCEPT !.off = @ + bytes_written]
                /\ Returned("read", "READING", "file", "NONE")
       ELSE /\ UNCHANGED << ring_used, fwd, transfer_buffer_length_,
                            transfer_buffer_current_ >>
            /\ Returned("read", "FINISHED", "file", "NONE")
    /\ space_available' = 0 /\ bytes_to_read' = 0 /\ received_len' = 0
    /\ UNCHANGED << client_, sessions, pc >>

\* esp_http_client_is_complete_data_received
is_complete_data_received(c) == sessions[c].pos = sessions[c].total

\* whether session c had delivered its whole body on entry to the step in which
\* received bytes have been taken from it since
CompleteOnEntry(c, received) ==
    IF sessions[c].pos - received = sessions[c].total THEN "yes" ELSE "no"

\* mutant of HttpReadComplete: FINISHED is returned without the cleanup
HttpReadCompleteKeepsSession ==
    /\ ReadEntry
    /\ client_ # nullptr
    /\ is_complete_data_received(client_)
    /\ ReturnedHttp("FINISHED", CompleteOnEntry(client_, 0))
    /\ space_available' = 0 /\ bytes_to_read' = 0 /\ received_len' = 0
    /\ UNCHANGED << client_, sessions, transfer_buffer_current_,
                    transfer_buffer_length_, ring_used, pc, fwd >>

\* AudioReader::http_read_, the session has delivered its whole body
HttpReadComplete ==
    /\ ReadEntry
    /\ client_ # nullptr
    /\ is_complete_data_received(client_)
    /\ sessions' = cleanup_connection_(client_, sessions)
    /\ client_' = nullptr
    /\ ReturnedHttp("FINISHED", CompleteOnEntry(client_, 0))
    /\ space_available' = 0 /\ bytes_to_read' = 0 /\ received_len' = 0
    /\ UNCHANGED << transfer_buffer_current_, transfer_buffer_length_,
                    ring_used, pc, fwd >>

\* mutant of ReadQuota: the quota is not clamped to the free space
ReadQuotaUnclamped(size, space) == size

\* mutant of ReadQuota: one byte more than the free space is asked for
ReadQuotaOneMore(size, space) == IF space < size THEN space + 1 ELSE size

\* mutant of ReadQuota: the comparison is the wrong way round
ReadQuotaFlipped(size, space) == IF space > size THEN space ELSE size

\* the read quota of http_read_
ReadQuota(size, space) == IF space < size THEN space ELSE size

\* AudioReader::http_read_, up to the call of esp_http_client_read
HttpReadMeasure ==
    /\ ReadEntry
    /\ client_ # nullptr
    /\ ~is_complete_data_received(client_)
    /\ space_available' = RingFree
    /\ bytes_to_read' = ReadQuota(transfer_buffer_size_, RingFree)
    /\ received_len' = 0
    /\ pc' = "recv"
    /\ UNCHANGED << client_, transfer_buffer_current_,
                    transfer_buffer_length_, ring_used, sessions, ret, fwd >>

\* what esp_http_client_read may return when asked for len bytes of session c
SessionRead(c, len) ==
    {0 - 1} \cup (0 .. Min(len, sessions[c].total - sessions[c].pos))

\* mutant of read_failed: a read that brings nothing counts as an error
read_failed_on_zero(r) == r <= 0

\* the test http_read_ makes of the result of esp_http_client_read
read_failed(r) == r < 0

\* AudioReader::http_read_, esp_http_client_read and the test of its result
HttpReadRecv ==
    /\ pc = "recv"
    /\ session_read_len' = bytes_to_read
    /\ \E r \in SessionRead(client_, bytes_to_read) :
        /\ received_len' = r
        /\ IF read_failed(r)
           THEN /\ sessions' = cleanup_connection_(client_, sessions)
                /\ client_' = nullptr
                /\ ReturnedHttp("FAILED", CompleteOnEntry(client_, 0))
                /\ pc' = "idle"
           ELSE /\ sessions' = [sessions EXCEPT ![client_].pos = @ + r]
                /\ pc' = "write"
                /\ UNCHANGED << client_, ret >>
    /\ UNCHANGED << transfer_buffer_, transfer_buffer_size_, current_media_file_,
                    transfer_buffer_current_, transfer_buffer_length_, ring_used,
                    space_available, bytes_to_read, destroyed, nstarts,
                    prevRead, after_terminal, prev_client, src, fwd, delayed,
                    ring_size, allocs, frees >>

\* mutant of NeedsDelay: a read of exactly 3/4 of the capacity delays too
NeedsDelayInclusive(received, size) == received * 4 <= size * 3

\* the pacing test of http_read_
NeedsDelay(received, size) == received * 4 < size * 3

\* AudioReader::http_read_, the ring write, the pacing delay and the return
HttpReadWrite ==
    /\ pc = "write"
    /\ LET bytes_written == IF received_len > 0 THEN RingWritten(received_len) ELSE 0
       IN  /\ ring_used' = ring_used + bytes_written
           /\ fwd' = fwd \o StagingBytes(bytes_written)
    /\ delayed' = NeedsDelay(received_len, transfer_buffer_size_)
    /\ ReturnedHttp("READING", CompleteOnEntry(client_, received_len))
    /\ pc' = "idle"
    /\ UNCHANGED << transfer_buffer_, transfer_buffer_size_, client_,
                    current_media_file_, transfer_buffer_current_,
                    transfer_buffer_length_, sessions, space_available,
                    bytes_to_read, received_len, destroyed, nstarts,
                    prevRead, after_terminal, prev_client, src, session_read_len,
                    ring_size, allocs, frees >>

\* ---- ~AudioReader -----------------------------------------------------------

\* the blocks the destructor gives back to the allocator
deallocations(buf) == IF buf THEN 1 ELSE 0

\* the fields of the object are gone afterwards
Destroy ==
    /\ pc = "idle"
    /\ ~destroyed
    /\ destroyed' = TRUE
    /\ transfer_buffer_' = FALSE
    /\ sessions' = cleanup_connection_(client_, sessions)
    /\ client_' = nullptr
    /\ current_media_file_' = nullptr
    /\ transfer_buffer_current_' = NullCursor
    /\ transfer_buffer_length_' = 0
    /\ space_available' = 0 /\ bytes_to_read' = 0 /\ received_len' = 0
    /\ prevRead' = NoRead
    /\ after_terminal' = FALSE
    /\ prev_client' = nullptr
    /\ src' = NoSource
    /\ fwd' = <<>>
    /\ session_read_len' = NoReq
    /\ delayed' = FALSE
    /\ frees' = frees + deallocations(transfer_buffer_)
    /\ Returned("destroy", "ESP_OK", "destroy", "NONE")
    /\ UNCHANGED << transfer_buffer_size_, ring_used, pc, nstarts, ring_size,
                    allocs >>

\* ---- the consumer task ----------------------------------------------------

\* the decoder takes k bytes out of the ring buffer
Drain ==
    /\ ~destroyed
    /\ \E k \in 1..ring_used : ring_used' = ring_used - k
    /\ UNCHANGED << transfer_buffer_, transfer_buffer_size_, client_,
                    current_media_file_, transfer_buffer_current_,
                    transfer_buffer_length_, sessions, pc, space_available,
                    bytes_to_read, received_len, destroyed, nstarts,
                    ret, prevRead, after_terminal, prev_client, src, fwd, session_read_len,
                    delayed, ring_size, allocs, frees >>

Next ==
    \/ StartFileNoMem
    \/ StartFileOk
    \/ StartUri
    \/ ReadNoSource
    \/ file_read_
    \/ HttpReadComplete
    \/ HttpReadMeasure
    \/ HttpReadRecv
    \/ HttpReadWrite
    \/ Destroy
    \/ Drain

Spec == Init /\ [][Next]_vars

\* ---- one network stream, with larger buffers -------------------------------

\* the reader after construction and a first start(uri) that returned ESP_OK:
\* the staging buffer has 1..MaxCapacity bytes, the ring buffer MaxCapacity,
\* and the server will send a body of 0..MaxCapacity bytes
StreamInit ==
    /\ transfer_buffer_ = TRUE
    /\ transfer_buffer_size_ \in 1..MaxCapacity
    /\ client_ = 1
    /\ current_media_file_ = nullptr
    /\ transfer_buffer_current_ = StagingCursor
    /\ transfer_buffer_length_ = 0
    /\ ring_size = MaxCapacity
    /\ ring_used \in 0..ring_size
    /\ allocs = 1
    /\ frees = 0
    /\ \E total \in 0..MaxCapacity :
        /\ sessions = [s \in 1..MaxStarts |->
                         IF s = 1
                         THEN [st |-> "open", releases |-> 0, total |-> total, pos |-> 0]
                         ELSE NoSession]
        /\ src = [kind |-> "http", id |-> 1, len |-> total]
    /\ pc = "idle"
    /\ space_available = 0
    /\ bytes_to_read = 0
    /\ received_len = 0
    /\ destroyed = FALSE
    /\ nstarts = 1
    /\ ret = [op |-> "start_uri", status |-> "ESP_OK", step |-> "ok",
              file_type |-> "WAV", headers |-> "ok", arg |-> "nonempty",
              complete |-> "none"]
    /\ prevRead = NoRead
    /\ after_terminal = FALSE
    /\ prev_client = nullptr
    /\ fwd = <<>>
    /\ session_read_len = NoReq
    /\ delayed = FALSE

\* read() is called again and again while the consumer drains the ring
StreamNext ==
    \/ ReadNoSource
    \/ HttpReadComplete
    \/ HttpReadMeasure
    \/ HttpReadRecv
    \/ HttpReadWrite
    \/ Drain

StreamSpec == StreamInit /\ [][StreamNext]_vars

\* ---- properties ----------------------------------------------------------

IsPrefix(a, b) == Len(a) <= Len(b) /\ SubSeq(b, 1, Len(a)) = a

\* the bytes of the source of the last successful start()
SourceBytes == Bytes(src.id, 0, src.len)

NoLiveSession == \A s \in DOMAIN sessions : ~Live(s)

StartReturned == ret.op \in {"start_file", "start_uri"}

StartedOk == StartReturned /\ ret.status = "ESP_OK"

\* C1: after a successful start(memory) the read() calls forward the bytes of
\* the memory source and nothing else, in source order, each step returns
\* READING or FINISHED from the file path, and FINISHED comes only when all
\* L bytes were forwarded.
C1_MemoryTransferExact ==
    src.kind = "file" =>
        /\ IsPrefix(fwd, SourceBytes)
        /\ ret.op = "read" =>
              /\ ret.step = "file"
              /\ ret.status \in {"READING", "FINISHED"}
              /\ ret.status = "FINISHED" => fwd = SourceBytes

\* the case of C1 in which no session is open when start(memory) is called
C1_NoSessionCase == prev_client = nullptr => C1_MemoryTransferExact

\* C2: when start(uri) returns a failure or read() returns FAILED, the reader
\* holds no session handle and no session is open.
C2_FailureLeavesNoSession ==
    (\/ ret.op = "start_uri" /\ ret.status # "ESP_OK"
     \/ ret.op = "read" /\ ret.status = "FAILED")
        => client_ = nullptr /\ NoLiveSession

\* a start(uri) that failed on the suffix after it had opened a session
C2_Witness ==
    /\ ret.op = "start_uri"
    /\ ret.step = "suffix"
    /\ ret.status = "ESP_ERR_NOT_SUPPORTED"
    /\ sessions[nstarts].st = "released"

\* C3: at most one session is open at any time and it is the one client_
\* names; no session is released twice, a session is closed exactly when it
\* was released once, none is open after destruction, and the cleanup of no
\* session changes nothing.
C3_SessionReleasedOnce ==
    /\ Cardinality({s \in DOMAIN sessions : Live(s)}) <= 1
    /\ \A s \in DOMAIN sessions :
        /\ Live(s) => client_ = s
        /\ sessions[s].releases <= 1
        /\ sessions[s].st = "released" <=> sessions[s].releases = 1
    /\ client_ # nullptr => Live(client_)
    /\ destroyed => NoLiveSession
    /\ cleanup_connection_(nullptr, sessions) = sessions

\* the reader was destroyed after it had opened and released two sessions
C3_Witness ==
    /\ destroyed
    /\ Cardinality({s \in DOMAIN sessions : sessions[s].releases = 1}) >= 2

\* C4: after a successful start exactly one of the two sources is held.
C4_ExactlyOneSource ==
    StartedOk => (client_ # nullptr) # (current_media_file_ # nullptr)

\* C5: a start issued while a session is open leaves that session released,
\* and no byte forwarded after the start comes from it.
C5_StartAbortsSession ==
    prev_client # nullptr =>
        /\ sessions[prev_client].st = "released"
        /\ \A i \in 1..Len(fwd) : fwd[i][1] # prev_client

\* C6: a read() that follows a read() which returned FINISHED (FAILED), with
\* no start in between, returns FINISHED (FAILED).
C6_TerminalAbsorbing ==
    (ret.op = "read" /\ prevRead.status \in {"FINISHED", "FAILED"})
        => ret.status = prevRead.status

\* C7: when read() returns FINISHED or FAILED no session is open.
C7_TerminalReleasesSession ==
    (ret.op = "read" /\ ret.status \in {"FINISHED", "FAILED"})
        => client_ = nullptr /\ NoLiveSession

\* the network path failed on a read error and released its session
C7_Witness ==
    /\ ret.op = "read"
    /\ ret.status = "FAILED"
    /\ ret.step = "http"
    /\ \E s \in DOMAIN sessions : sessions[s].st = "released"

\* a step of the network path past the completion test, or just returned
InHttpStep ==
    \/ pc \in {"recv", "write"}
    \/ ret.op = "read" /\ ret.step = "http" /\ ret.status \in {"READING", "FAILED"}

\* esp_http_client_read has been called in that step
HttpReadCalled ==
    \/ pc = "write"
    \/ pc = "idle" /\ ret.op = "read" /\ ret.step = "http"
                   /\ ret.status \in {"READING", "FAILED"}

\* C8 as claimed: the quota is min(capacity, free space) and is the length
\* asked of the session, and with the ring full (free space 0) the step
\* makes no read request at all.
C8_NoRequestWhenFull ==
    /\ InHttpStep =>
          /\ bytes_to_read <= transfer_buffer_size_
          /\ bytes_to_read <= space_available
          /\ bytes_to_read \in {transfer_buffer_size_, space_available}
    /\ HttpReadCalled =>
          IF space_available = 0
          THEN session_read_len = NoReq
          ELSE session_read_len = bytes_to_read

\* C8 amended: the quota is min(capacity, free space), every step past the
\* completion test asks the session for exactly the quota, and with the ring
\* full the request is made with length 0.
C8_ReadQuota ==
    /\ InHttpStep =>
          /\ bytes_to_read <= transfer_buffer_size_
          /\ bytes_to_read <= space_available
          /\ bytes_to_read \in {transfer_buffer_size_, space_available}
    /\ HttpReadCalled =>
          /\ session_read_len = bytes_to_read
          /\ space_available = 0 => session_read_len = 0

\* a step that found the ring full and asked the session for 0 bytes
C8_Witness ==
    /\ pc = "write"
    /\ space_available = 0
    /\ session_read_len = 0
    /\ transfer_buffer_size_ > 0

\* C9: the length the network path passes to the ring write is at most the
\* free space of the ring at that write, whatever the consumer drained since
\* the free space was measured.
C9_WriteFitsFreeSpace ==
    pc = "write" => received_len <= RingFree

\* a write of as many bytes as were free at the measurement, about to happen
\* after the consumer drained the ring in the middle of the step
C9_Witness ==
    /\ pc = "write"
    /\ received_len > 0
    /\ received_len = space_available
    /\ RingFree > space_available

\* the places where start(uri) fails on its argument or on the session,
\* as C10 lists them (empty or unopenable URI, unresolved or unsupported URL)
InvalidUriSteps == {"empty", "init", "open", "url", "suffix"}

\* the transfer after a start() made in a terminal state is that of the new
\* source alone
FreshTransfer ==
    (after_terminal /\ src.kind # "none") =>
        /\ prev_client = nullptr
        /\ IsPrefix(fwd, SourceBytes)
        /\ (ret.op = "read" /\ ret.step = src.kind /\ ret.status = "FINISHED")
              => fwd = SourceBytes
        /\ src.kind = "file" =>
              /\ client_ = nullptr
              /\ ret.op = "read" => ret.step = "file"
              /\ transfer_buffer_current_ =
                    [region |-> "file", id |-> src.id, off |-> Len(fwd)]
              /\ transfer_buffer_length_ = src.len - Len(fwd)
        /\ src.kind = "http" =>
              /\ client_ \in {nullptr, src.id}
              /\ transfer_buffer_current_ = StagingCursor
              /\ transfer_buffer_length_ = 0

\* C10 as claimed: after a terminal read() of a source, a start with a memory
\* descriptor, or with a URI whose session opens and whose URL resolves to a
\* supported suffix, returns ESP_OK, and the reads that follow forward the
\* new source from its beginning, with no cursor, length or session left over.
C10_RestartAfterTerminal ==
    /\ (after_terminal /\ StartReturned /\ ret.step \notin InvalidUriSteps)
          => ret.status = "ESP_OK"
    /\ FreshTransfer

\* C10 amended: the same, for a URI whose read timeout can also be lowered.
C10_RestartAfterTerminalAmended ==
    /\ (after_terminal /\ StartReturned
          /\ ret.step \notin (InvalidUriSteps \cup {"timeout"}))
          => ret.status = "ESP_OK"
    /\ FreshTransfer

\* a second memory source fully forwarded after the first one had finished
C10_Witness ==
    /\ after_terminal
    /\ src.kind = "file"
    /\ src.len = MaxLen
    /\ ret.op = "read"
    /\ ret.status = "FINISHED"
    /\ fwd = SourceBytes


\* ---------------------------------------------------------------------------
\* C11: a start(uri) in which the session open, the header fetch or the URL
\* resolution failed returns a failure status and leaves no session behind, and
\* a start(uri) that returns ESP_OK had all three succeed.
C11_ConnectionFailureFails ==
    (ret.op = "start_uri" /\ ~destroyed)
        => /\ (ret.step \in {"open", "url"} \/ ret.headers = "failed")
                => (ret.status # "ESP_OK" /\ client_ = nullptr /\ NoLiveSession)
           /\ ret.status = "ESP_OK" => ret.headers = "ok"

\* the part of C11 the code keeps: a failed open or a failed URL resolution
\* fails the start and leaves no session
C11_OpenAndUrlFailureFails ==
    (ret.op = "start_uri" /\ ret.step \in {"open", "url"} /\ ~destroyed)
        => (ret.status # "ESP_OK" /\ client_ = nullptr /\ NoLiveSession)

\* a start(uri) returned ESP_OK although its header fetch had failed
C11_HeaderFailureIgnored ==
    /\ ret.op = "start_uri" /\ ret.status = "ESP_OK" /\ ret.headers = "failed"
    /\ client_ # nullptr /\ Live(client_)


\* ---------------------------------------------------------------------------
\* C12: for both start operations the reported file type is NONE exactly when
\* the start returned a failure status.
C12_NoneIffFailure ==
    (ret.op \in {"start_file", "start_uri"})
        => (ret.file_type = "NONE" <=> ret.status # "ESP_OK")

\* the part of C12 the code keeps: a start(uri) that returns ESP_OK reports
\* WAV, MP3 or FLAC, and a failed start(memory) reports NONE
C12_UriOkAndFileFailure ==
    /\ (ret.op = "start_uri" /\ ret.status = "ESP_OK") => ret.file_type # "NONE"
    /\ (ret.op = "start_file" /\ ret.status # "ESP_OK") => ret.file_type = "NONE"


\* ---------------------------------------------------------------------------
\* C13: a start(uri) with an empty uri returns ESP_ERR_INVALID_ARG, opens no
\* session and makes no call on any session, so that a session that was open
\* when it was called is still open, and still the reader's, when it returns.
C13_EmptyUriNoNetworkOperation ==
    (ret.op = "start_uri" /\ ret.arg = "empty")
        => /\ ret.status = "ESP_ERR_INVALID_ARG"
           /\ sessions[nstarts].st = "unused"
           /\ prev_client # nullptr
                => (client_ = prev_client /\ sessions[prev_client].st = "open")

\* C13 as the code has it: a start(uri) with an empty uri returns
\* ESP_ERR_INVALID_ARG when the staging buffer is there and ESP_ERR_NO_MEM when
\* its allocation failed, opens no session, and the only calls it makes on a
\* session are the close and the release, once, of the session that was open
\* when it was called; no session is open when it returns.
C13_EmptyUriRejected ==
    (ret.op = "start_uri" /\ ret.arg = "empty")
        => /\ ret.status = IF transfer_buffer_ THEN "ESP_ERR_INVALID_ARG"
                           ELSE "ESP_ERR_NO_MEM"
           /\ sessions[nstarts].st = "unused"
           /\ client_ = nullptr /\ NoLiveSession
           /\ prev_client # nullptr
                => /\ transfer_buffer_
                   /\ sessions[prev_client].st = "released"
                   /\ sessions[prev_client].releases = 1

\* an empty uri was rejected while a session was open
C13_Witness ==
    /\ ret.op = "start_uri" /\ ret.arg = "empty"
    /\ ret.status = "ESP_ERR_INVALID_ARG"
    /\ prev_client # nullptr /\ sessions[prev_client].st = "released"


\* ---------------------------------------------------------------------------
\* C14: a network step that returns READING has delayed the task exactly when
\* the bytes received in it are fewer than 3/4 of the staging capacity, and a
\* read() that returns FINISHED or FAILED has not delayed it.
C14_DelayBelowThreeQuarters ==
    (ret.op = "read" /\ pc = "idle")
        => /\ (ret.step = "http" /\ ret.status = "READING")
                => /\ received_len \in 0..transfer_buffer_size_
                   /\ delayed <=> (received_len * 4 < transfer_buffer_size_ * 3)
           /\ ret.status \in {"FINISHED", "FAILED"} => ~delayed

\* a step received exactly 3/4 of the staging capacity and did not delay
C14_Witness ==
    /\ ret.op = "read" /\ ret.step = "http" /\ ret.status = "READING"
    /\ pc = "idle"
    /\ received_len > 0
    /\ received_len * 4 = transfer_buffer_size_ * 3
    /\ ~delayed

\* a step received a part of the capacity below 3/4 and delayed
C14_DelayedCase ==
    /\ ret.op = "read" /\ ret.step = "http" /\ ret.status = "READING"
    /\ pc = "idle"
    /\ received_len = 2 /\ transfer_buffer_size_ = 3
    /\ delayed


C16_StartNoMemStep ==
    (nstarts' = nstarts + 1 /\ transfer_buffer_' = FALSE)
        => /\ ret'.status = "ESP_ERR_NO_MEM"
           /\ UNCHANGED << client_, current_media_file_, transfer_buffer_current_,
                           transfer_buffer_length_, sessions >>

C16_StartWithBufferStep ==
    (nstarts' = nstarts + 1 /\ transfer_buffer_)
        => (transfer_buffer_' /\ allocs' = allocs /\ frees' = frees)

C16_BufferOnce ==
    /\ allocs <= 1
    /\ frees <= allocs
    /\ frees > 0 => destroyed
    /\ ~destroyed => (transfer_buffer_ <=> allocs = 1)
    /\ (ret.op \in {"start_file", "start_uri"} /\ ret.status = "ESP_ERR_NO_MEM")
            => (~transfer_buffer_ /\ allocs = 0)

C16_AllocationOnceAndFailureFrame ==
    /\ []C16_BufferOnce
    /\ [][C16_StartNoMemStep /\ C16_StartWithBufferStep]_vars

\* the buffer got by the first start served a second start and was given back
\* by the destructor
C16_Witness ==
    /\ destroyed /\ nstarts = 2 /\ allocs = 1 /\ frees = 1

\* a start failed for want of memory
C16_NoMemCase ==
    /\ ret.op = "start_uri" /\ ret.status = "ESP_ERR_NO_MEM" /\ allocs = 0


\* ---------------------------------------------------------------------------
\* C17: on the network path the ring write takes every byte the session read
\* returned: the bytes written to the ring are, in order, the bytes the reads
\* of the session returned, and a session that ends with FINISHED has had its
\* whole body written.
LastBytes(s, n) == SubSeq(s, Len(s) - n + 1, Len(s))

C17_NoReceivedByteLost ==
    /\ (pc = "write" /\ received_len > 0)
            => RingWritten(received_len) = received_len
    /\ (ret.op = "read" /\ ret.step = "http" /\ ret.status = "READING"
            /\ pc = "idle" /\ received_len > 0)
            => /\ Len(fwd) >= received_len
               /\ LastBytes(fwd, received_len)
                      = Bytes(client_, sessions[client_].pos - received_len,
                              received_len)
    /\ (src.kind = "http" /\ client_ = src.id)
            => fwd = Bytes(src.id, 0, sessions[src.id].pos
                              - (IF pc = "write" THEN received_len ELSE 0))
    /\ (src.kind = "http" /\ ret.op = "read" /\ ret.step = "http"
            /\ ret.status = "FINISHED")
            => fwd = Bytes(src.id, 0, src.len)

\* a session delivered its body in more than one read while the consumer
\* drained the ring, and all of it was written
C17_Witness ==
    /\ src.kind = "http" /\ src.len = MaxLen
    /\ ret.op = "read" /\ ret.step = "http" /\ ret.status = "FINISHED"
    /\ prevRead = [status |-> "READING", step |-> "http"]
    /\ fwd = Bytes(src.id, 0, MaxLen)
    /\ ring_used < MaxLen


\* ---------------------------------------------------------------------------
\* C18: a start(uri) that fails after the allocation leaves no session open and
\* leaves the media file, the read cursor and the remaining length as they
\* were, so that the reads after it go on with the memory transfer where it
\* stood; a start(uri) that returns ESP_OK puts the cursor on the staging buffer
\* with a remaining length of 0.
C18_FailedStartUriStep ==
    (nstarts' = nstarts + 1 /\ ret'.op = "start_uri" /\ ret'.status # "ESP_OK"
        /\ transfer_buffer_')
        => /\ UNCHANGED << current_media_file_, transfer_buffer_current_,
                           transfer_buffer_length_ >>
           /\ client_' = nullptr
           /\ NoLiveSession'

C18_OkStartUriStep ==
    (nstarts' = nstarts + 1 /\ ret'.op = "start_uri" /\ ret'.status = "ESP_OK")
        => /\ transfer_buffer_current_' = StagingCursor
           /\ transfer_buffer_length_' = 0
           /\ UNCHANGED current_media_file_

\* after a failed start the bytes read() has written from the media file are
\* the ones that lie just before the cursor
C18_ResumedTransfer ==
    (ret.op = "read" /\ ret.step = "file" /\ src = NoSource
        /\ transfer_buffer_current_.region = "file")
        => /\ transfer_buffer_current_.id = current_media_file_
           /\ Len(fwd) <= transfer_buffer_current_.off
           /\ fwd = Bytes(transfer_buffer_current_.id,
                          transfer_buffer_current_.off - Len(fwd), Len(fwd))

C18_FailedStartUriKeepsMemorySource ==
    /\ []C18_ResumedTransfer
    /\ [][C18_FailedStartUriStep /\ C18_OkStartUriStep]_vars

\* a memory transfer had written its first byte, a start(uri) opened a session,
\* failed and released it, and the next read() wrote the second byte
C18_Witness ==
    /\ ret.op = "read" /\ ret.step = "file" /\ ret.status = "READING"
    /\ src = NoSource /\ nstarts = 2
    /\ sessions[2].st = "released"
    /\ current_media_file_ = 1
    /\ transfer_buffer_current_ = [region |-> "file", id |-> 1, off |-> 2]
    /\ fwd = Bytes(1, 1, 1)

====
